---------------------------- MODULE Spec2Model ----------------------------
(***************************************************************************)
(* Model of scripts/migrate-sqlite-to-postgres.ts: the SQLite -> Postgres  *)
(* data migration (table order resolver, self-reference row resolver,      *)
(* batch transfer and the orchestrating main()).                           *)
(*                                                                         *)
(* Encoding.  Table names and row ids are positive integers (a model name  *)
(* and a cuid are non-empty strings; only equality and, for ids, the       *)
(* ascending order are used by the code).  0 stands for null/undefined.    *)
(* A row is a function from column numbers to values: column ID holds the  *)
(* primary key, column PAYLOAD the non-key content, column u (a table      *)
(* name) the foreign key referencing table u (for u the row's own table:   *)
(* the parent pointer) and column ALT a second self-referencing foreign    *)
(* key.                                                                    *)
(***************************************************************************)
EXTENDS Integers, Sequences, FiniteSets, TLC

\* ------------------------------------------------------------------ bounds
\* Main run: number of tables of the catalog, relation fields in the whole
\* catalog, rows per source table, rows already in the destination,
\* batch sizes, runs in succession.
MaxTables == 2
MaxRunFields == 2
MaxRows == 2
MaxPre == 1
MaxBatch == 2
MaxRuns == 2
\* Table order resolver on its own: models and fields of the catalog.
MaxModels == 3
MaxFields == 3
\* Self-reference row resolver on its own: rows of the row set.
MaxSortRows == 3

\* the paginated transfer alone: rows of the table, batch sizes
MaxPageRows == 5
MaxPageBatch == 3
MaxChunkRows == 3
MaxChunkBatch == 3
MaxCycleModels == 4
MaxCycleFields == 4

\* ------------------------------------------------------- values, sequences
NULL == 0
ID == 0
PAYLOAD == -1
ALT == -2

Max(a, b) == IF a >= b THEN a ELSE b
Min(a, b) == IF a <= b THEN a ELSE b

Range(s) == {s[k] : k \in 1..Len(s)}

\* The sequences that list every element of the finite set S exactly once.
Perms(S) ==
  {s \in [1..Cardinality(S) -> S] : \A x \in S : \E k \in DOMAIN s : s[k] = x}

\* The elements of a finite set of integers, ascending.
RECURSIVE AscSeq(_)
AscSeq(S) ==
  IF S = {} THEN <<>>
  ELSE LET m == CHOOSE x \in S : \A y \in S : x <= y
       IN <<m>> \o AscSeq(S \ {m})

\* A JavaScript Set/Map remembers first insertion: the distinct elements of s
\* in order of first occurrence.
RECURSIVE Distinct(_)
Distinct(s) ==
  IF s = <<>> THEN <<>>
  ELSE LET front == Distinct(SubSeq(s, 1, Len(s) - 1))
           last == s[Len(s)]
       IN IF last \in Range(front) THEN front ELSE Append(front, last)

IndexOf(s, x) == CHOOSE k \in 1..Len(s) : s[k] = x

\* --------------------------------------------------------- catalog (DMMF)
\* DmmfModel: [name, fields]; a field: [kind, type, relationFromFields].
Field(kind, type, from) ==
  [kind |-> kind, type |-> type, relationFromFields |-> from]

Names(ms) == [k \in 1..Len(ms) |-> ms[k].name]

\* models.find by name as a Map built from the list resolves it: last entry wins.
ModelByName(ms, n) ==
  ms[CHOOSE k \in 1..Len(ms) :
       /\ ms[k].name = n
       /\ \A j \in (k + 1)..Len(ms) : ms[j].name # n]

\* ---------------------------------------------------- getDependencyGraph
\* Mutant: the test on relationFromFields is missing, so the inverse side of
\* a relation is a dependency too.
depsOfModelWithInverse(model, modelNames) ==
  {model.fields[k].type : k \in
     {j \in 1..Len(model.fields) :
        /\ model.fields[j].kind = "object"
        /\ model.fields[j].type \in modelNames
        /\ model.fields[j].type # model.name}}

depsOfModel(model, modelNames) ==
  {model.fields[k].type : k \in
     {j \in 1..Len(model.fields) :
        /\ model.fields[j].kind = "object"
        /\ Len(model.fields[j].relationFromFields) # 0
        /\ model.fields[j].type \in modelNames
        /\ model.fields[j].type # model.name}}

getDependencyGraph(ms) ==
  LET modelNames == Range(Names(ms))
  IN [n \in modelNames |-> depsOfModel(ModelByName(ms, n), modelNames)]

\* -------------------------------------------------------- topoSortModels
\* Mutant: the edges are entered the wrong way round, children.get(m).add(parent).
modelChildrenInverted(ms, deps) ==
  LET keys == Distinct(Names(ms))
  IN [p \in Range(keys) |-> SelectSeq(keys, LAMBDA m : m \in deps[p])]

\* children.get(parent): the models that list parent, in deps.entries() order.
modelChildren(ms, deps) ==
  LET keys == Distinct(Names(ms))
  IN [p \in Range(keys) |-> SelectSeq(keys, LAMBDA m : p \in deps[m])]

\* for (const child of children.get(m)) { inDegree--; if 0 queue.push(child) }
RECURSIVE releaseModelChildren(_, _, _)
releaseModelChildren(kids, inDegree, queue) ==
  IF kids = <<>> THEN [inDegree |-> inDegree, queue |-> queue]
  ELSE LET c == Head(kids)
           deg == [inDegree EXCEPT ![c] = @ - 1]
       IN releaseModelChildren(Tail(kids), deg,
                               IF deg[c] = 0 THEN Append(queue, c) ELSE queue)

\* while (queue.length) { m = queue.shift(); sorted.push(m); ... }
RECURSIVE kahnModels(_, _, _, _)
kahnModels(queue, sorted, inDegree, children) ==
  IF queue = <<>> THEN sorted
  ELSE LET m == Head(queue)
           st == releaseModelChildren(children[m], inDegree, Tail(queue))
       IN kahnModels(st.queue, Append(sorted, m), st.inDegree, children)

\* Mutant: every model is enqueued, whatever its in-degree.
initialModelQueueAll(keys, inDegree) == keys

\* Mutant: the models of in-degree 0 are enqueued at the front (unshift).
initialModelQueueReversed(keys, inDegree) ==
  LET q == SelectSeq(keys, LAMBDA m : inDegree[m] = 0)
  IN [k \in 1..Len(q) |-> q[Len(q) + 1 - k]]

\* const queue = []; for ([m, deg] of inDegree) if (deg === 0) queue.push(m)
initialModelQueue(keys, inDegree) ==
  SelectSeq(keys, LAMBDA m : inDegree[m] = 0)

\* Mutant: the fallback appends every model, not only the remaining ones.
withRemainingModelsUnfiltered(ms, sorted) ==
  IF Len(sorted) # Len(ms) THEN sorted \o Names(ms) ELSE sorted

\* Mutant: the remaining models are appended last model first.
withRemainingModelsReversed(ms, sorted) ==
  LET rest == SelectSeq(Names(ms), LAMBDA n : n \notin Range(sorted))
  IN IF Len(sorted) # Len(ms)
       THEN sorted \o [k \in 1..Len(rest) |-> rest[Len(rest) + 1 - k]]
       ELSE sorted

\* the cycle fallback: sorted, then the remaining models in schema order
withRemainingModels(ms, sorted) ==
  IF Len(sorted) # Len(ms)
    THEN sorted \o SelectSeq(Names(ms), LAMBDA n : n \notin Range(sorted))
    ELSE sorted

topoSortModels(ms) ==
  LET deps == getDependencyGraph(ms)
      keys == Distinct(Names(ms))
      inDegree == [m \in Range(keys) |-> Cardinality(deps[m])]
      children == modelChildren(ms, deps)
      sorted == kahnModels(initialModelQueue(keys, inDegree), <<>>,
                           inDegree, children)
  IN withRemainingModels(ms, sorted)

\* ------------------------------------------------ getSelfRelationFkFields
RECURSIVE selfFromFields(_, _)
selfFromFields(model, k) ==
  IF k > Len(model.fields) THEN <<>>
  ELSE (IF model.fields[k].kind = "object" /\ model.fields[k].type = model.name
          THEN model.fields[k].relationFromFields ELSE <<>>)
       \o selfFromFields(model, k + 1)

getSelfRelationFkFields(model) == Distinct(selfFromFields(model, 1))

\* ------------------------------------------------------ topoSortSelfRows
RowIds(rs) == [k \in 1..Len(rs) |-> rs[k][ID]]

\* new Map(rows.map(r => [r.id, r])): the last row of an id wins.
rowById(rs, id) ==
  rs[CHOOSE k \in 1..Len(rs) :
       /\ rs[k][ID] = id
       /\ \A j \in (k + 1)..Len(rs) : rs[j][ID] # id]

\* Mutant: a row that names itself as parent is taken for a root.
hasParentInSetNoSelf(r, parentIdField, ids) ==
  /\ r[parentIdField] # NULL
  /\ r[parentIdField] \in ids
  /\ r[parentIdField] # r[ID]

\* Mutant: a parent outside the row set counts as a parent to wait for.
hasParentInSetAny(r, parentIdField, ids) == r[parentIdField] # NULL

\* if (!parentId) continue; if (!byId.has(parentId)) continue
hasParentInSet(r, parentIdField, ids) ==
  /\ r[parentIdField] # NULL
  /\ r[parentIdField] \in ids

\* inDegree after the second loop over rows: one increment per counted row.
rowInDegree(rs, parentIdField) ==
  LET ids == Range(RowIds(rs))
  IN [id \in ids |->
        Cardinality({k \in 1..Len(rs) :
           rs[k][ID] = id /\ hasParentInSet(rs[k], parentIdField, ids)})]

\* children.get(parentId): a Set of child ids, in order of first insertion.
rowChildren(rs, parentIdField) ==
  LET ids == Range(RowIds(rs))
      counted == SelectSeq(rs, LAMBDA r : hasParentInSet(r, parentIdField, ids))
  IN [p \in ids |->
        Distinct(RowIds(SelectSeq(counted, LAMBDA r : r[parentIdField] = p)))]

\* Mutant: every row is enqueued, whatever its in-degree.
initialRowQueueAll(keys, inDegree) == keys

\* Mutant: the rows of in-degree 0 are enqueued at the front (unshift).
initialRowQueueReversed(keys, inDegree) ==
  LET q == SelectSeq(keys, LAMBDA id : inDegree[id] = 0)
  IN [k \in 1..Len(q) |-> q[Len(q) + 1 - k]]

\* const queue = []; for ([id, deg] of inDegree) if (deg === 0) queue.push(id)
initialRowQueue(keys, inDegree) ==
  SelectSeq(keys, LAMBDA id : inDegree[id] = 0)

\* for (const childId of children.get(id)) { inDegree--; if 0 queue.push }
RECURSIVE releaseRowChildren(_, _, _)
releaseRowChildren(kids, inDegree, queue) ==
  IF kids = <<>> THEN [inDegree |-> inDegree, queue |-> queue]
  ELSE LET c == Head(kids)
           deg == [inDegree EXCEPT ![c] = @ - 1]
       IN releaseRowChildren(Tail(kids), deg,
                             IF deg[c] = 0 THEN Append(queue, c) ELSE queue)

\* while (queue.length) { id = queue.shift(); ordered.push(byId.get(id)); ... }
RECURSIVE kahnRows(_, _, _, _, _)
kahnRows(queue, out, inDegree, children, rs) ==
  IF queue = <<>> THEN out
  ELSE LET id == Head(queue)
           st == releaseRowChildren(children[id], inDegree, Tail(queue))
       IN kahnRows(st.queue, Append(out, rowById(rs, id)), st.inDegree,
                   children, rs)

\* Mutant: the rows left over are appended last row first.
withRemainingRowsReversed(rs, out) ==
  LET rest == SelectSeq(rs, LAMBDA r : r[ID] \notin Range(RowIds(out)))
  IN IF Len(out) # Len(rs)
       THEN out \o [k \in 1..Len(rest) |-> rest[Len(rest) + 1 - k]]
       ELSE out

\* if (hasCycle) for (const r of rows) if (!seen.has(r.id)) ordered.push(r)
withRemainingRows(rs, out) ==
  IF Len(out) # Len(rs)
    THEN out \o SelectSeq(rs, LAMBDA r : r[ID] \notin Range(RowIds(out)))
    ELSE out

\* Mutant: the rows are written in the order they were fetched.
topoSortSelfRowsUnsorted(rs, parentIdField) ==
  [ordered |-> rs, hasCycle |-> FALSE]

topoSortSelfRows(rs, parentIdField) ==
  LET keys == Distinct(RowIds(rs))
      out == kahnRows(initialRowQueue(keys, rowInDegree(rs, parentIdField)),
                      <<>>, rowInDegree(rs, parentIdField),
                      rowChildren(rs, parentIdField), rs)
  IN [ordered |-> withRemainingRows(rs, out),
      hasCycle |-> Len(out) # Len(rs)]

\* ------------------------------------------------------------------ state
VARIABLES
  pc,                 \* position of main()
  dmmf,               \* PostgresPrisma.dmmf.datamodel.models
  src,                \* source store: table -> set of rows (static)
  srcHas,             \* tables with a delegate on the source client
  pre,                \* destination store before the first run
  dst,                \* destination store: table -> set of rows
  dst0,               \* destination store when the current run started
  run,                \* number of the current run
  prevExit,           \* exit status of the previous run (-1: none)
  batchSize,          \* MIGRATION_BATCH_SIZE
  databaseUrl,        \* whether DATABASE_URL is set
  srcConn, dstConn,   \* "none", "created", "connected", "released"
  models,             \* the catalog of the run
  orderedModelNames,  \* the table order
  idx,                \* position of the for loop in orderedModelNames
  total,              \* srcDelegate.count()
  rows,               \* the rows last fetched
  ordered, hasCycle,  \* topoSortSelfRows(rows, parentIdField)
  i,                  \* offset of the pre-ordered chunk loop
  processed,          \* rows written by the paginated loop
  cursorId,           \* last id seen by the paginated loop
  err,                \* the error thrown, "none" while there is none
  exitCode,           \* process exit status (-1 while running)
  log                 \* the store calls of the current run, in order

vars == <<pc, dmmf, src, srcHas, pre, dst, dst0, run, prevExit, batchSize,
          databaseUrl, srcConn, dstConn, models, orderedModelNames, idx, total, rows,
          ordered, hasCycle, i, processed, cursorId, err, exitCode, log>>

\* --------------------------------------------------------------- the data
Cols == ALT..MaxTables

EmptyRow == [c \in Cols |-> NULL]

\* Row i of table t: parent pointer p, and a reference to row i of every table
\* of refs (the tables t depends on that hold a row i).
Row(t, id, p, refs) ==
  [c \in Cols |->
     IF c = ID THEN id
     ELSE IF c = PAYLOAD THEN 1
     ELSE IF c = t THEN p
     ELSE IF c \in refs THEN id
     ELSE NULL]

\* A row the destination held before the first run: same key, other content.
StaleRow(id) == [EmptyRow EXCEPT ![ID] = id]

IdsOf(S) == {r[ID] : r \in S}

\* The fields of table t: a stored FK to each table of deps, `self` stored
\* self-references (columns t and ALT), and the inverse side of every relation
\* that points at t (no FK column of its own).
RunFields(t, shape) ==
  LET n == Len(shape)
      out == [k \in 1..Cardinality(shape[t].deps) |->
                LET u == AscSeq(shape[t].deps)[k]
                IN Field("object", u, <<u>>)]
      self == IF shape[t].self >= 1
                THEN <<Field("object", t, <<t>>), Field("object", t, <<>>)>>
                ELSE <<>>
      alt == IF shape[t].self >= 2
                THEN <<Field("object", t, <<ALT>>), Field("object", t, <<>>)>>
                ELSE <<>>
      back == [k \in 1..Cardinality({u \in 1..n : t \in shape[u].deps}) |->
                 Field("object",
                       AscSeq({u \in 1..n : t \in shape[u].deps})[k], <<>>)]
  IN out \o self \o alt \o back

RECURSIVE SumSeq(_)
SumSeq(s) == IF s = <<>> THEN 0 ELSE Head(s) + SumSeq(Tail(s))

RunShapes(n) ==
  {sh \in [1..n -> [deps : SUBSET (1..n), self : 0..2]] :
     /\ \A t \in 1..n : t \notin sh[t].deps
     /\ SumSeq([t \in 1..n |-> Cardinality(sh[t].deps) + sh[t].self])
          <= MaxRunFields}

CatalogOf(shape) ==
  [t \in 1..Len(shape) |-> [name |-> t, fields |-> RunFields(t, shape)]]

\* The data of one source table: no delegate (cnt = -1) or cnt rows 1..cnt,
\* each with a parent pointer (NULL unless the table references itself).
TableData(self) ==
  {[cnt |-> -1, par |-> <<>>]} \cup
  UNION {{[cnt |-> c, par |-> p] :
            p \in IF self >= 1 THEN [1..c -> 0..c] ELSE {[k \in 1..c |-> NULL]}}
         : c \in 0..MaxRows}

RECURSIVE SourceData(_, _)
SourceData(shape, n) ==
  IF n = 0 THEN {<<>>}
  ELSE {Append(d, x) :
          d \in SourceData(shape, n - 1), x \in TableData(shape[n].self)}

SourceOf(shape, data) ==
  [t \in 1..Len(shape) |->
     {Row(t, k, data[t].par[k],
          {u \in shape[t].deps : k <= data[t].cnt /\ k <= data[u].cnt})
        : k \in 1..Max(data[t].cnt, 0)}]

\* The destination before the first run: at most MaxPre stale rows.
PreStores(n) ==
  {[t \in 1..n |-> {StaleRow(c[2]) : c \in {x \in S : x[1] = t}}] :
     S \in {T \in SUBSET ((1..n) \X (1..MaxRows)) : Cardinality(T) <= MaxPre}}

\* ------------------------------------------------------------ store calls
Call(op, side, t, ids, res) ==
  [op |-> op, side |-> side, t |-> t, ids |-> ids, res |-> res]

\* Mutant: createMany without skipDuplicates.
SkipDuplicatesOff == FALSE

\* createMany({ data, skipDuplicates: true })
SkipDuplicates == TRUE

\* The FK columns a row of table t stores, with the table each references.
fkColumns(schema, t) ==
  LET m == ModelByName(schema, t)
  IN UNION {{<<m.fields[k].relationFromFields[j], m.fields[k].type>> :
               j \in 1..Len(m.fields[k].relationFromFields)}
            : k \in {j \in 1..Len(m.fields) : m.fields[j].kind = "object"}}

\* Mutant: an upsert, which overwrites the rows whose key exists.
createManyUpsert(db, schema, t, data, skipDuplicates) ==
  [res |-> "ok",
   db |-> [db EXCEPT ![t] = {r \in @ : r[ID] \notin Range(RowIds(data))}
                               \cup Range(data)]]

\* Mutant: the table is emptied before each bulk insert.
createManyReplace(db, schema, t, data, skipDuplicates) ==
  [res |-> "ok", db |-> [db EXCEPT ![t] = Range(data)]]

\* One bulk INSERT into table t of db: a duplicate key is skipped or raises
\* P2002; a foreign key with no target after the statement raises P2003; a
\* failed statement inserts nothing.
createMany(db, schema, t, data, skipDuplicates) ==
  LET fresh == {data[k] : k \in {j \in 1..Len(data) :
                                   data[j][ID] \notin IdsOf(db[t])}}
      after == [db EXCEPT ![t] = @ \cup fresh]
      dup == \E k \in 1..Len(data) : data[k][ID] \in IdsOf(db[t])
      dangling == \E r \in fresh : \E cu \in fkColumns(schema, t) :
                     /\ r[cu[1]] # NULL
                     /\ r[cu[1]] \notin IdsOf(after[cu[2]])
  IN IF dup /\ ~skipDuplicates THEN [res |-> "P2002", db |-> db]
     ELSE IF dangling THEN [res |-> "P2003", db |-> db]
     ELSE [res |-> "ok", db |-> after]

\* Mutant: the cursor without skip: 1, so a page starts at the cursor row.
findPageNoSkip(table, take, cursor) ==
  LET asc == AscSeq(IdsOf(table))
      from == IF cursor # NULL /\ cursor \in IdsOf(table)
                THEN IndexOf(asc, cursor) ELSE 1
      ids == SubSeq(asc, from, Min(Len(asc), from + take - 1))
  IN [k \in 1..Len(ids) |-> CHOOSE r \in table : r[ID] = ids[k]]

\* Mutant: skip: 2, so the row after the cursor row is passed over.
findPageSkipTwo(table, take, cursor) ==
  LET asc == AscSeq(IdsOf(table))
      from == IF cursor # NULL
                THEN IF cursor \in IdsOf(table) THEN IndexOf(asc, cursor) + 2
                     ELSE Len(asc) + 1
                ELSE 1
      ids == SubSeq(asc, from, Min(Len(asc), from + take - 1))
  IN [k \in 1..Len(ids) |-> CHOOSE r \in table : r[ID] = ids[k]]

\* findMany({ take, skip: 1, cursor: { id }, orderBy: { id: 'asc' } })
findPage(table, take, cursor) ==
  LET asc == AscSeq(IdsOf(table))
      from == IF cursor # NULL
                THEN IF cursor \in IdsOf(table) THEN IndexOf(asc, cursor) + 1
                     ELSE Len(asc) + 1
                ELSE 1
      ids == SubSeq(asc, from, Min(Len(asc), from + take - 1))
  IN [k \in 1..Len(ids) |-> CHOOSE r \in table : r[ID] = ids[k]]

\* ordered.slice(i, i + batchSize)
\* Mutant: slice(i, i + batchSize + 1): a chunk takes one row of the next.
sliceChunkInclusive(list, offset, size) ==
  SubSeq(list, offset + 1, Min(Len(list), offset + size + 1))

sliceChunk(list, offset, size) ==
  SubSeq(list, offset + 1, Min(Len(list), offset + size))


\* ------------------------------------------------------------- main(): Init
RunLocals ==
  /\ run = 1
  /\ prevExit = -1
  /\ srcConn = "none"
  /\ dstConn = "none"
  /\ models = <<>>
  /\ orderedModelNames = <<>>
  /\ idx = 0
  /\ total = 0
  /\ rows = <<>>
  /\ ordered = <<>>
  /\ hasCycle = FALSE
  /\ i = 0
  /\ processed = 0
  /\ cursorId = NULL
  /\ err = "none"
  /\ exitCode = -1
  /\ log = <<>>

Init ==
  /\ pc = "start"
  /\ \E n \in 1..MaxTables : \E shape \in RunShapes(n) :
       \E data \in SourceData(shape, n) :
         /\ dmmf = CatalogOf(shape)
         /\ src = SourceOf(shape, data)
         /\ srcHas = {t \in 1..n : data[t].cnt >= 0}
         /\ pre \in PreStores(n)
  /\ dst = pre
  /\ dst0 = pre
  /\ batchSize \in 1..MaxBatch
  /\ databaseUrl \in BOOLEAN
  /\ RunLocals

\* ---------------------------------------------------------- main(): steps
\* Mutant: the DATABASE_URL check is missing.
envOkAlways(url) == TRUE

\* if (!process.env.DATABASE_URL) throw
envOk(url) == url

\* models = dmmf.datamodel.models.filter(m => !m.name.startsWith('_')); a
\* name below 1 stands for a name that starts with an underscore.
filterModels(ms) == SelectSeq(ms, LAMBDA m : m.name >= 1)

\* Mutant: the delegate check is missing.
hasDelegatesAlways(modelName) == TRUE

\* delegateName(modelName) and the lookup src[delegate] / dst[delegate]: the
\* destination client is generated from the datamodel the catalog is read from.
hasDelegates(modelName) ==
  /\ modelName \in srcHas
  /\ modelName \in Range(Names(dmmf))

\* Mutant: the zero-row skip is missing.
isEmptyTableNever(n) == FALSE

\* if (!total) continue
isEmptyTable(n) == n = 0

\* Mutant: any self-referential FK column selects the pre-ordered mode.
usePreOrderedAny(selfFkFields) == Len(selfFkFields) >= 1

\* if (selfFkFields.length === 1)
usePreOrdered(selfFkFields) == Len(selfFkFields) = 1

\* Mutant: while (true), left only by the break on an empty page.
morePagesAlways(done, n) == TRUE

\* Mutant: while (processed <= total).
morePagesInclusive(done, n) == done <= n

\* while (processed < total)
morePages(done, n) == done < n

\* Mutant: the chunk loop has no exit test.
moreChunksAlways(offset, list) == TRUE

\* for (let i = 0; i < ordered.length; i += batchSize)
moreChunks(offset, list) == offset < Len(list)

CurModel == orderedModelNames[idx]

\* Mutant: the failure is swallowed and the run ends as if it had succeeded.
ThrowSwallowed(kind) ==
  /\ err' = "none"
  /\ pc' = "finally"

\* Mutant: a failed bulk insert is caught inside the table loop, which goes
\* on.
ThrowRetry(kind) ==
  /\ err' = kind
  /\ pc' = IF kind = "write" THEN "loop" ELSE "finally"

\* Mutant: the failure leaves main() without the finally block.
ThrowNoFinally(kind) ==
  /\ err' = kind
  /\ pc' = "settled"

\* A rejected await inside the try block: control goes to the finally block
\* and the rejection then leaves main().
Throw(kind) ==
  /\ err' = kind
  /\ pc' = "finally"

NextTable ==
  /\ idx' = idx + 1
  /\ pc' = "loop"

\* Mutant: the catch handler does not set the exit status.
exitStatusZero(thrown) == 0

\* lines 273-276: main().catch(err => process.exit(1)); 0 when main() resolves
exitStatus(thrown) == IF thrown = "none" THEN 0 ELSE 1

\* lines 151-170: read the environment, create the two clients
Start ==
  /\ pc = "start"
  /\ IF envOk(databaseUrl)
       THEN /\ srcConn' = "created"
            /\ dstConn' = "created"
            /\ pc' = "connectSrc"
            /\ UNCHANGED <<err, exitCode>>
       ELSE /\ err' = "config"
            /\ exitCode' = exitStatus("config")
            /\ pc' = "exit"
            /\ UNCHANGED <<srcConn, dstConn>>
  /\ UNCHANGED <<dmmf, src, srcHas, pre, dst, dst0, run, prevExit, batchSize,
                 databaseUrl, models, orderedModelNames, idx, total, rows, ordered,
                 hasCycle, i, processed, cursorId, log>>

\* await src.$connect()
ConnectSrc ==
  /\ pc = "connectSrc"
  /\ \/ /\ srcConn' = "connected"
        /\ log' = Append(log, Call("connect", "src", 0, <<>>, "ok"))
        /\ pc' = "connectDst"
        /\ UNCHANGED err
     \/ /\ log' = Append(log, Call("connect", "src", 0, <<>>, "io"))
        /\ Throw("connect")
        /\ UNCHANGED srcConn
  /\ UNCHANGED <<dmmf, src, srcHas, pre, dst, dst0, run, prevExit, batchSize,
                 databaseUrl, dstConn, models, orderedModelNames, idx, total, rows,
                 ordered, hasCycle, i, processed, cursorId, exitCode>>

\* await dst.$connect()
ConnectDst ==
  /\ pc = "connectDst"
  /\ \/ /\ dstConn' = "connected"
        /\ log' = Append(log, Call("connect", "dst", 0, <<>>, "ok"))
        /\ pc' = "probe"
        /\ UNCHANGED err
     \/ /\ log' = Append(log, Call("connect", "dst", 0, <<>>, "io"))
        /\ Throw("connect")
        /\ UNCHANGED dstConn
  /\ UNCHANGED <<dmmf, src, srcHas, pre, dst, dst0, run, prevExit, batchSize,
                 databaseUrl, srcConn, models, orderedModelNames, idx, total, rows,
                 ordered, hasCycle, i, processed, cursorId, exitCode>>

\* await dst.$queryRaw`SELECT 1`
QueryRaw ==
  /\ pc = "probe"
  /\ \/ /\ log' = Append(log, Call("queryRaw", "dst", 0, <<>>, "ok"))
        /\ pc' = "sort"
        /\ UNCHANGED err
     \/ /\ log' = Append(log, Call("queryRaw", "dst", 0, <<>>, "io"))
        /\ Throw("probe")
  /\ UNCHANGED <<dmmf, src, srcHas, pre, dst, dst0, run, prevExit, batchSize,
                 databaseUrl, srcConn, dstConn, models, orderedModelNames, idx, total,
                 rows, ordered, hasCycle, i, processed, cursorId, exitCode>>

\* lines 179-188: the catalog and the table order
TopoSort ==
  /\ pc = "sort"
  /\ models' = filterModels(dmmf)
  /\ orderedModelNames' = topoSortModels(filterModels(dmmf))
  /\ idx' = 1
  /\ pc' = "loop"
  /\ UNCHANGED <<dmmf, src, srcHas, pre, dst, dst0, run, prevExit, batchSize,
                 databaseUrl, srcConn, dstConn, total, rows, ordered, hasCycle, i,
                 processed, cursorId, err, exitCode, log>>

\* lines 190-201 and 266: the for loop's head and the delegate lookup
LoopNext ==
  /\ pc = "loop"
  /\ \/ /\ idx > Len(orderedModelNames)
        /\ pc' = "finally"
        /\ UNCHANGED idx
     \/ /\ idx <= Len(orderedModelNames)
        /\ \/ CurModel \notin Range(Names(models))
           \/ ~hasDelegates(CurModel)
        /\ NextTable
     \/ /\ idx <= Len(orderedModelNames)
        /\ CurModel \in Range(Names(models))
        /\ hasDelegates(CurModel)
        /\ pc' = "count"
        /\ UNCHANGED idx
  /\ UNCHANGED <<dmmf, src, srcHas, pre, dst, dst0, run, prevExit, batchSize,
                 databaseUrl, srcConn, dstConn, models, orderedModelNames, total, rows,
                 ordered, hasCycle, i, processed, cursorId, err, exitCode,
                 log>>

\* lines 203-221 and 239-240: count, the zero-row skip, the choice of mode
Count ==
  /\ pc = "count"
  /\ \/ /\ log' = Append(log, Call("count", "src", CurModel, <<>>, "io"))
        /\ Throw("fetch")
        /\ UNCHANGED <<idx, total, processed, cursorId>>
     \/ LET n == Cardinality(src[CurModel])
        IN /\ log' = Append(log, Call("count", "src", CurModel, <<>>, "ok"))
           /\ total' = n
           /\ UNCHANGED err
           /\ IF isEmptyTable(n)
                THEN NextTable /\ UNCHANGED <<processed, cursorId>>
                ELSE IF usePreOrdered(
                          getSelfRelationFkFields(ModelByName(models, CurModel)))
                  THEN /\ pc' = "findAll"
                       /\ UNCHANGED <<idx, processed, cursorId>>
                  ELSE /\ pc' = "page"
                       /\ processed' = 0
                       /\ cursorId' = NULL
                       /\ UNCHANGED idx
  /\ UNCHANGED <<dmmf, src, srcHas, pre, dst, dst0, run, prevExit, batchSize,
                 databaseUrl, srcConn, dstConn, models, orderedModelNames, rows, ordered,
                 hasCycle, i, exitCode>>

\* lines 221-226: fetch every row (in the order the store returns them) and
\* order parents before children
FindAll ==
  /\ pc = "findAll"
  /\ \/ /\ log' = Append(log, Call("findMany", "src", CurModel, <<>>, "io"))
        /\ Throw("fetch")
        /\ UNCHANGED <<rows, ordered, hasCycle, i>>
     \/ \E fetched \in Perms(src[CurModel]) :
          LET parentIdField ==
                getSelfRelationFkFields(ModelByName(models, CurModel))[1]
              res == topoSortSelfRows(fetched, parentIdField)
          IN /\ log' = Append(log, Call("findMany", "src", CurModel,
                                        RowIds(fetched), "ok"))
             /\ rows' = fetched
             /\ ordered' = res.ordered
             /\ hasCycle' = res.hasCycle
             /\ i' = 0
             /\ pc' = "chunk"
             /\ UNCHANGED err
  /\ UNCHANGED <<dmmf, src, srcHas, pre, dst, dst0, run, prevExit, batchSize,
                 databaseUrl, srcConn, dstConn, models, orderedModelNames, idx, total,
                 processed, cursorId, exitCode>>

\* The bulk insert the next step issues, when it is one.
CurChunk ==
  IF pc = "chunk" THEN sliceChunk(ordered, i, batchSize) ELSE rows

\* lines 228-235: the pre-ordered chunk loop
Chunk ==
  /\ pc = "chunk"
  /\ \/ /\ moreChunks(i, ordered)
        /\ log' = Append(log, Call("createMany", "dst", CurModel,
                                   RowIds(CurChunk), "io"))
        /\ Throw("write")
        /\ UNCHANGED <<dst, i, idx>>
     \/ /\ moreChunks(i, ordered)
        /\ LET w == createMany(dst, dmmf, CurModel, CurChunk, SkipDuplicates)
           IN /\ log' = Append(log, Call("createMany", "dst", CurModel,
                                         RowIds(CurChunk), w.res))
              /\ dst' = w.db
              /\ IF w.res = "ok"
                   THEN /\ i' = i + batchSize
                        /\ UNCHANGED <<pc, err>>
                   ELSE /\ Throw("write")
                        /\ UNCHANGED i
        /\ UNCHANGED idx
     \/ /\ ~moreChunks(i, ordered)
        /\ NextTable
        /\ UNCHANGED <<dst, i, err, log>>
  /\ UNCHANGED <<dmmf, src, srcHas, pre, dst0, run, prevExit, batchSize,
                 databaseUrl, srcConn, dstConn, models, orderedModelNames, total, rows,
                 ordered, hasCycle, processed, cursorId, exitCode>>

\* lines 242-254 and 262-263: the paginated loop's head and its fetch
Page ==
  /\ pc = "page"
  /\ \/ /\ morePages(processed, total)
        /\ log' = Append(log, Call("findMany", "src", CurModel, <<>>, "io"))
        /\ Throw("fetch")
        /\ UNCHANGED <<rows, idx>>
     \/ /\ morePages(processed, total)
        /\ LET fetched == findPage(src[CurModel], batchSize, cursorId)
           IN /\ log' = Append(log, Call("findMany", "src", CurModel,
                                         RowIds(fetched), "ok"))
              /\ rows' = fetched
              /\ IF Len(fetched) = 0
                   THEN NextTable
                   ELSE pc' = "pageWrite" /\ UNCHANGED idx
        /\ UNCHANGED err
     \/ /\ ~morePages(processed, total)
        /\ NextTable
        /\ UNCHANGED <<rows, err, log>>
  /\ UNCHANGED <<dmmf, src, srcHas, pre, dst, dst0, run, prevExit, batchSize,
                 databaseUrl, srcConn, dstConn, models, orderedModelNames, total, ordered,
                 hasCycle, i, processed, cursorId, exitCode>>

\* Mutant: the page's bulk insert is not awaited: the loop goes on to the next
\* fetch while the insert has not reached the destination.
PageWriteNotAwaited ==
  /\ pc = "pageWrite"
  /\ processed' = processed + Len(rows)
  /\ cursorId' = rows[Len(rows)][ID]
  /\ pc' = "page"
  /\ UNCHANGED <<dmmf, src, srcHas, pre, dst, dst0, run, prevExit, batchSize,
                 databaseUrl, srcConn, dstConn, models, orderedModelNames, idx, total,
                 rows, ordered, hasCycle, i, err, exitCode, log>>

\* lines 256-260: the page's bulk insert and the cursor's advance
PageWrite ==
  /\ pc = "pageWrite"
  /\ \/ /\ log' = Append(log, Call("createMany", "dst", CurModel,
                                   RowIds(CurChunk), "io"))
        /\ Throw("write")
        /\ UNCHANGED <<dst, processed, cursorId>>
     \/ LET w == createMany(dst, dmmf, CurModel, CurChunk, SkipDuplicates)
        IN /\ log' = Append(log, Call("createMany", "dst", CurModel,
                                      RowIds(CurChunk), w.res))
           /\ dst' = w.db
           /\ IF w.res = "ok"
                THEN /\ processed' = processed + Len(rows)
                     /\ cursorId' = rows[Len(rows)][ID]
                     /\ pc' = "page"
                     /\ UNCHANGED err
                ELSE /\ Throw("write")
                     /\ UNCHANGED <<processed, cursorId>>
  /\ UNCHANGED <<dmmf, src, srcHas, pre, dst0, run, prevExit, batchSize,
                 databaseUrl, srcConn, dstConn, models, orderedModelNames, idx, total,
                 rows, ordered, hasCycle, i, exitCode>>

\* lines 268-270: finally { await Promise.allSettled([disconnect, disconnect]) }
Finally ==
  /\ pc = "finally"
  /\ srcConn' = "released"
  /\ dstConn' = "released"
  /\ log' = log \o <<Call("disconnect", "src", 0, <<>>, "ok"),
                     Call("disconnect", "dst", 0, <<>>, "ok")>>
  /\ pc' = "settled"
  /\ UNCHANGED <<dmmf, src, srcHas, pre, dst, dst0, run, prevExit, batchSize,
                 databaseUrl, models, orderedModelNames, idx, total, rows, ordered,
                 hasCycle, i, processed, cursorId, err, exitCode>>

Exit ==
  /\ pc = "settled"
  /\ exitCode' = exitStatus(err)
  /\ pc' = "exit"
  /\ UNCHANGED <<dmmf, src, srcHas, pre, dst, dst0, run, prevExit, batchSize,
                 databaseUrl, srcConn, dstConn, models, orderedModelNames, idx, total,
                 rows, ordered, hasCycle, i, processed, cursorId, err, log>>

\* The operator runs the script again: same source, same destination.
Rerun ==
  /\ pc = "exit"
  /\ run < MaxRuns
  /\ run' = run + 1
  /\ prevExit' = exitCode
  /\ dst0' = dst
  /\ pc' = "start"
  /\ srcConn' = "none"
  /\ dstConn' = "none"
  /\ models' = <<>>
  /\ orderedModelNames' = <<>>
  /\ idx' = 0
  /\ total' = 0
  /\ rows' = <<>>
  /\ ordered' = <<>>
  /\ hasCycle' = FALSE
  /\ i' = 0
  /\ processed' = 0
  /\ cursorId' = NULL
  /\ err' = "none"
  /\ exitCode' = -1
  /\ log' = <<>>
  /\ databaseUrl' \in BOOLEAN
  /\ UNCHANGED <<dmmf, src, srcHas, pre, dst, batchSize>>

Next ==
  \/ Start
  \/ ConnectSrc
  \/ ConnectDst
  \/ QueryRaw
  \/ TopoSort
  \/ LoopNext
  \/ Count
  \/ FindAll
  \/ Chunk
  \/ Page
  \/ PageWrite
  \/ Finally
  \/ Exit
  \/ Rerun

Spec == Init /\ [][Next]_vars


\* ------------------------------------------ the table order resolver alone
\* The subsets of S of at most k elements.
RECURSIVE UpTo(_, _)
UpTo(S, k) ==
  IF k = 0 THEN {{}}
  ELSE LET less == UpTo(S, k - 1)
       IN less \cup {T \cup {x} : T \in less, x \in S}

\* A candidate field of a catalog of n models, by number: 0 a scalar field,
\* 2u+1 a relation to u that stores the FK column, 2u+2 the inverse side of a
\* relation to u; u = 0 is a table that is not in the catalog.
FieldOfCode(c) ==
  IF c = 0 THEN Field("scalar", 0, <<>>)
  ELSE IF c % 2 = 1 THEN Field("object", (c - 1) \div 2, <<(c - 1) \div 2>>)
  ELSE Field("object", (c - 2) \div 2, <<>>)

SortCatalog(n, S) ==
  [t \in 1..n |->
     [name |-> t,
      fields |-> LET codes == AscSeq({x[2] : x \in {y \in S : y[1] = t}})
                 IN [k \in 1..Len(codes) |-> FieldOfCode(codes[k])]]]

StoresIdle ==
  /\ src = <<>>
  /\ srcHas = {}
  /\ pre = <<>>
  /\ dst = <<>>
  /\ dst0 = <<>>
  /\ batchSize = 1
  /\ databaseUrl = TRUE

InitModels ==
  /\ pc = "sort"
  /\ \E n \in 1..MaxModels :
       \E S \in UpTo((1..n) \X (0..(2 * n + 2)), MaxFields) :
         dmmf = SortCatalog(n, S)
  /\ StoresIdle
  /\ RunLocals

SpecModels == InitModels /\ [][TopoSort]_vars

\* ------------------------------------- the self-reference row resolver alone
\* A Task table: parent Task? @relation(fields: [parentId]) and its inverse.
TaskCatalog ==
  <<[name |-> 1,
     fields |-> <<Field("scalar", 0, <<>>), Field("object", 1, <<1>>),
                  Field("object", 1, <<>>)>>]>>

\* Row sets with unique ids, in every order, every parent pointer null, in the
\* set or outside it.
RowInput(ids, par) == [k \in 1..Len(ids) |-> Row(1, ids[k], par[ids[k]], {})]

InitRows ==
  /\ pc = "rows"
  /\ dmmf = TaskCatalog
  /\ \E S \in SUBSET (1..MaxSortRows) : \E ids \in Perms(S) :
       \E par \in [S -> 0..MaxSortRows] : rows = RowInput(ids, par)
  /\ run = 1
  /\ prevExit = -1
  /\ srcConn = "none"
  /\ dstConn = "none"
  /\ models = TaskCatalog
  /\ orderedModelNames = <<>>
  /\ idx = 0
  /\ total = 0
  /\ ordered = <<>>
  /\ hasCycle = FALSE
  /\ i = 0
  /\ processed = 0
  /\ cursorId = NULL
  /\ err = "none"
  /\ exitCode = -1
  /\ log = <<>>
  /\ StoresIdle

\* const { ordered, hasCycle } = topoSortSelfRows(rows, parentIdField)
SortRows ==
  /\ pc = "rows"
  /\ LET res == topoSortSelfRows(rows, getSelfRelationFkFields(models[1])[1])
     IN /\ ordered' = res.ordered
        /\ hasCycle' = res.hasCycle
  /\ pc' = "rowsSorted"
  /\ UNCHANGED <<dmmf, src, srcHas, pre, dst, dst0, run, prevExit, batchSize,
                 databaseUrl, srcConn, dstConn, models, orderedModelNames, idx, total,
                 rows, i, processed, cursorId, err, exitCode, log>>

\* the resolver applied to its own output
SortAgain ==
  /\ pc = "rowsSorted"
  /\ rows' = ordered
  /\ LET res == topoSortSelfRows(ordered,
                                 getSelfRelationFkFields(models[1])[1])
     IN /\ ordered' = res.ordered
        /\ hasCycle' = res.hasCycle
  /\ pc' = "rowsSortedAgain"
  /\ UNCHANGED <<dmmf, src, srcHas, pre, dst, dst0, run, prevExit, batchSize,
                 databaseUrl, srcConn, dstConn, models, orderedModelNames, idx, total,
                 i, processed, cursorId, err, exitCode, log>>

NextRows == SortRows \/ SortAgain

SpecRows == InitRows /\ [][NextRows]_vars


\* ------------------------------------------- the paginated transfer alone
\* One table without self-reference, transferred by main() in pages, of up
\* to MaxPageRows rows; another process may delete source rows meanwhile.
PageShape == <<[deps |-> {}, self |-> 0]>>

PageData(cnt) == <<[cnt |-> cnt, par |-> [k \in 1..cnt |-> NULL]]>>

InitPages ==
  /\ pc = "start"
  /\ dmmf = CatalogOf(PageShape)
  /\ \E cnt \in -1..MaxPageRows :
       /\ src = SourceOf(PageShape, PageData(cnt))
       /\ srcHas = {t \in {1} : cnt >= 0}
  /\ pre \in PreStores(1)
  /\ dst = pre
  /\ dst0 = pre
  /\ batchSize \in 1..MaxPageBatch
  /\ databaseUrl \in BOOLEAN
  /\ RunLocals

\* A writer other than this script deletes a row of the source table while
\* the table is being paged.
SourceDelete ==
  /\ pc \in {"page", "pageWrite"}
  /\ \E r \in src[CurModel] : src' = [src EXCEPT ![CurModel] = @ \ {r}]
  /\ UNCHANGED <<pc, dmmf, srcHas, pre, dst, dst0, run, prevExit, batchSize,
                 databaseUrl, srcConn, dstConn, models, orderedModelNames, idx,
                 total, rows, ordered, hasCycle, i, processed, cursorId, err,
                 exitCode, log>>

NextPages ==
  \/ Start
  \/ ConnectSrc
  \/ ConnectDst
  \/ QueryRaw
  \/ TopoSort
  \/ LoopNext
  \/ Count
  \/ Page
  \/ PageWrite
  \/ Finally
  \/ Exit
  \/ SourceDelete

SpecPages == InitPages /\ [][NextPages]_vars

\* ------------------------------------- the pre-ordered transfer of one table
\* One table with one self-referential FK, with up to MaxChunkRows rows and
\* every parent map over them, transferred by main() in chunks.
ChunkShape == <<[deps |-> {}, self |-> 1]>>

InitChunks ==
  /\ pc = "start"
  /\ dmmf = CatalogOf(ChunkShape)
  /\ \E cnt \in -1..MaxChunkRows :
       \E par \in [1..Max(cnt, 0) -> 0..Max(cnt, 0)] :
         /\ src = SourceOf(ChunkShape, <<[cnt |-> cnt, par |-> par]>>)
         /\ srcHas = {t \in {1} : cnt >= 0}
  /\ pre \in PreStores(1)
  /\ dst = pre
  /\ dst0 = pre
  /\ batchSize \in 1..MaxChunkBatch
  /\ databaseUrl \in BOOLEAN
  /\ RunLocals

NextChunks ==
  \/ Start
  \/ ConnectSrc
  \/ ConnectDst
  \/ QueryRaw
  \/ TopoSort
  \/ LoopNext
  \/ Count
  \/ FindAll
  \/ Chunk
  \/ Finally
  \/ Exit

SpecChunks == InitChunks /\ [][NextChunks]_vars

\* ------------------------------------------------- one run, run to its end
\* One run of main() over a static source and into an empty destination: a
\* catalog of tables with their rows and batch size 1, or one paginated
\* table, or one pre-ordered table. The runtime resumes main() whenever the
\* store call it awaits has settled, so a step that can be taken is taken.
InitTerm ==
  /\ (Init /\ batchSize = 1) \/ InitPages \/ InitChunks
  /\ \A t \in DOMAIN pre : pre[t] = {}

NextTerm ==
  \/ Start
  \/ ConnectSrc
  \/ ConnectDst
  \/ QueryRaw
  \/ TopoSort
  \/ LoopNext
  \/ Count
  \/ FindAll
  \/ Chunk
  \/ Page
  \/ PageWrite
  \/ Finally
  \/ Exit

SpecTerm == InitTerm /\ [][NextTerm]_vars /\ WF_vars(NextTerm)

\* -------------------------------------------- the table resolver under cycles
\* Catalogs of up to MaxCycleModels tables with up to MaxCycleFields stored
\* FKs among them (to another table or to the table itself).
InitCycles ==
  /\ pc = "sort"
  /\ \E n \in 1..MaxCycleModels :
       \E S \in UpTo({<<a, 2 * b + 1>> : a \in 1..n, b \in 1..n},
                      MaxCycleFields) :
         dmmf = SortCatalog(n, S)
  /\ StoresIdle
  /\ RunLocals

SpecCycles == InitCycles /\ [][TopoSort]_vars


\* ================================================================ claims
\* Positions of x in the sequence s.
Pos(s, x) == {k \in 1..Len(s) : s[k] = x}

\* x occurs in s, y occurs in s, and every x is strictly before every y.
StrictlyBefore(s, x, y) ==
  /\ Pos(s, x) # {}
  /\ Pos(s, y) # {}
  /\ \A p \in Pos(s, x) : \A q \in Pos(s, y) : p < q

\* The tables reachable from the tables of S along at most k dependencies.
RECURSIVE Closure(_, _, _)
Closure(deps, S, k) ==
  IF k = 0 THEN S
  ELSE Closure(deps, S \cup UNION {deps[x] : x \in S}, k - 1)

DependsOnTransitively(deps, a) ==
  Closure(deps, deps[a], Cardinality(DOMAIN deps))

AcyclicGraph(deps) == \A a \in DOMAIN deps : a \notin DependsOnTransitively(deps, a)

\* The table order has just been resolved, or is being walked.
OrderResolved == pc \in {"loop", "count", "findAll", "chunk", "page", "pageWrite"}

\* C1: when the dependency graph built by getDependencyGraph is acyclic, the
\* order topoSortModels returns places every table B that a table A depends
\* on strictly before A.
C1_DependenciesFirst ==
  (OrderResolved /\ AcyclicGraph(getDependencyGraph(models)))
    => \A a \in DOMAIN getDependencyGraph(models) :
         \A b \in getDependencyGraph(models)[a] :
           StrictlyBefore(orderedModelNames, b, a)

\* C1 witness: an acyclic catalog of three tables in which a table precedes,
\* in the catalog, a table it depends on, and the order has been resolved.
C1_Witness ==
  /\ pc = "loop"
  /\ Len(models) = 3
  /\ AcyclicGraph(getDependencyGraph(models))
  /\ \E a \in 1..3 : \E b \in getDependencyGraph(models)[a] :
       /\ a < b
       /\ getDependencyGraph(models)[b] # {}

\* C2: with or without cycles, the order topoSortModels returns is a
\* permutation of the catalog's (unique) table names: each exactly once.
C2_OrderIsPermutation ==
  OrderResolved
    => /\ Len(orderedModelNames) = Len(models)
       /\ \A k \in 1..Len(models) :
            Cardinality(Pos(orderedModelNames, models[k].name)) = 1

\* C2 witness: a catalog with a dependency cycle and a table outside it that
\* depends on the cycle, after the order was resolved.
C2_Witness ==
  /\ pc = "loop"
  /\ Len(models) = 3
  /\ ~AcyclicGraph(getDependencyGraph(models))
  /\ \E a \in 1..3 :
       /\ a \notin DependsOnTransitively(getDependencyGraph(models), a)
       /\ getDependencyGraph(models)[a] # {}

\* The parent of row r within the row set rs (NULL when it has none there).
ParentIn(rs, r, col) ==
  IF r[col] # NULL /\ r[col] \in Range(RowIds(rs)) THEN r[col] ELSE NULL

\* The ids reached from id by following parent pointers at most k times.
RECURSIVE Ancestors(_, _, _, _)
Ancestors(rs, col, S, k) ==
  IF k = 0 THEN S
  ELSE Ancestors(rs, col,
                 S \cup ({ParentIn(rs, rowById(rs, x), col) : x \in S} \ {NULL}),
                 k - 1)

RowsAcyclic(rs, col) ==
  \A k \in 1..Len(rs) :
    rs[k][ID] \notin
      Ancestors(rs, col, {ParentIn(rs, rs[k], col)} \ {NULL}, Len(rs))

ParentCol == getSelfRelationFkFields(TaskCatalog[1])[1]

RowsResolved == pc \in {"rowsSorted", "rowsSortedAgain"}

\* C7: for a row set with unique ids and no parent cycle, topoSortSelfRows
\* returns every row whose parent is in the set strictly after that parent,
\* and hasCycle = false.
C7_ParentsFirst ==
  (RowsResolved /\ RowsAcyclic(rows, ParentCol))
    => /\ hasCycle = FALSE
       /\ \A k \in 1..Len(rows) :
            ParentIn(rows, rows[k], ParentCol) # NULL
              => StrictlyBefore(RowIds(ordered),
                                ParentIn(rows, rows[k], ParentCol), rows[k][ID])

\* C7 witness: an acyclic chain of three rows given child first, resolved.
C7_Witness ==
  /\ pc = "rowsSorted"
  /\ Len(rows) >= 3
  /\ RowsAcyclic(rows, ParentCol)
  /\ ParentIn(rows, rows[1], ParentCol) = rows[3][ID]
  /\ ParentIn(rows, rows[3], ParentCol) = rows[2][ID]

\* C8: for an acyclic row set with unique ids, in any input order, applying
\* topoSortSelfRows to its own output returns the same sequence of rows.
C8_SortIdempotent ==
  (pc = "rowsSortedAgain" /\ RowsAcyclic(rows, ParentCol)) => ordered = rows

\* C8 witness: the resolver has been applied to its own output on an acyclic
\* row set of two roots followed by a child of the first root whose id is
\* the smallest of the three.
C8_Witness ==
  /\ pc = "rowsSortedAgain"
  /\ Len(rows) = 3
  /\ RowsAcyclic(rows, ParentCol)
  /\ ParentIn(rows, rows[1], ParentCol) = NULL
  /\ ParentIn(rows, rows[2], ParentCol) = NULL
  /\ ParentIn(rows, rows[3], ParentCol) = rows[1][ID]
  /\ rows[3][ID] < rows[2][ID]
  /\ rows[2][ID] < rows[1][ID]

\* ------------------------------------------------------ claims on main()
Tables == DOMAIN src

Completed == pc = "exit" /\ exitCode = 0

DataCall(c) == c.op \in {"count", "findMany", "createMany"}

\* C3: after a run that completes without error, from any destination state,
\* every table with accessors on both sides holds in the destination every
\* primary key of the source table, paginated and self-referential alike.
C3_EveryRowCopied ==
  Completed
    => \A t \in Tables :
         hasDelegates(t) => IdsOf(src[t]) \subseteq IdsOf(dst[t])

\* C3 witness: a completed first run that copied a paginated table of more
\* rows than one page and a self-referential table of two rows.
C3_Witness ==
  /\ Completed
  /\ run = 1
  /\ dst # dst0
  /\ \E t \in Tables :
       /\ getSelfRelationFkFields(ModelByName(models, t)) = <<>>
       /\ Cardinality(src[t]) > batchSize
  /\ \E t \in Tables :
       /\ Len(getSelfRelationFkFields(ModelByName(models, t))) = 1
       /\ Cardinality(src[t]) = 2

\* The rows of table t as a sequence in ascending id order, for RowsAcyclic.
RowSeq(S) == [k \in 1..Cardinality(S) |->
                CHOOSE r \in S : r[ID] = AscSeq(IdsOf(S))[k]]

SourceConsistent ==
  \A t \in Tables : \A r \in src[t] : \A cu \in fkColumns(dmmf, t) :
    r[cu[1]] # NULL => r[cu[1]] \in IdsOf(src[cu[2]])

\* The premises of C4: accessors everywhere, an acyclic table graph, at most
\* one self-referential FK column per table, no parent cycle among the rows,
\* a consistent source, a destination that was empty before the first run.
C4_Premises ==
  /\ \A t \in Tables : hasDelegates(t)
  /\ AcyclicGraph(getDependencyGraph(dmmf))
  /\ \A t \in Tables :
       /\ Len(getSelfRelationFkFields(ModelByName(dmmf, t))) <= 1
       /\ RowsAcyclic(RowSeq(src[t]), t)
  /\ SourceConsistent
  /\ \A t \in Tables : pre[t] = {}

WriteIsNext ==
  \/ pc = "chunk" /\ moreChunks(i, ordered)
  \/ pc = "pageWrite"

\* C4: under the premises, when a bulk-insert chunk is about to be applied,
\* every row that a row of the chunk references by foreign key is already in
\* the destination or earlier in the same chunk; in every run, a re-run after
\* an abort included.
C4_ReferencedRowsFirst ==
  (WriteIsNext /\ C4_Premises)
    => \A k \in 1..Len(CurChunk) : \A cu \in fkColumns(dmmf, CurModel) :
         \/ CurChunk[k][cu[1]] = NULL
         \/ CurChunk[k][cu[1]] \in IdsOf(dst[cu[2]])
         \/ /\ cu[2] = CurModel
            /\ \E j \in 1..(k - 1) : CurChunk[j][ID] = CurChunk[k][cu[1]]

\* C4 witness: in a re-run after an aborted run that had written a chunk, a
\* chunk of a self-referential table is about to be written whose child row
\* was fetched ahead of its parent, in a table that depends on another table.
C4_Witness ==
  /\ WriteIsNext
  /\ C4_Premises
  /\ pc = "chunk"
  /\ run = 2
  /\ prevExit = 1
  /\ dst0 # pre
  /\ rows # ordered
  /\ \E k \in 1..Len(CurChunk) : CurChunk[k][CurModel] # NULL
  /\ getDependencyGraph(dmmf)[CurModel] # {}

\* C5: a second run after a completed run, same source and destination, leaves
\* the destination as the first run left it, one row per primary key, and no
\* bulk insert fails because a key already exists.
C5_SecondRunInsertsNothing ==
  /\ \A k \in 1..Len(log) : log[k].res # "P2002"
  /\ \A t \in Tables : Cardinality(IdsOf(dst[t])) = Cardinality(dst[t])
  /\ (Completed /\ run >= 2 /\ prevExit = 0) => dst = dst0

\* C5 witness: a second run completed after a completed first run that had
\* inserted rows, having issued a bulk insert of existing keys.
C5_Witness ==
  /\ Completed
  /\ run = 2
  /\ prevExit = 0
  /\ dst0 # pre
  /\ \E k \in 1..Len(log) :
       /\ log[k].op = "createMany"
       /\ log[k].res = "ok"
       /\ Len(log[k].ids) = 2

\* C6: a run that completes after an aborted run adds to the destination
\* exactly the source rows whose primary key was missing, leaves the rows
\* that were present unchanged, and ends with every source row present.
C6_RerunAddsMissingRows ==
  (Completed /\ run >= 2 /\ prevExit = 1)
    => \A t \in Tables :
         /\ dst[t] = dst0[t] \cup {r \in src[t] : r[ID] \notin IdsOf(dst0[t])}
         /\ IdsOf(src[t]) \subseteq IdsOf(dst[t])

\* C6 witness: a completed re-run after a run aborted past a chunk write; the
\* re-run added rows and kept a row that was there before the first run.
C6_Witness ==
  /\ Completed
  /\ run = 2
  /\ prevExit = 1
  /\ dst0 # pre
  /\ dst # dst0
  /\ \E t \in Tables : \E r \in pre[t] :
       /\ r \in dst[t]
       /\ r[ID] \in IdsOf(src[t])

\* C9: for a table whose source row count is zero the run issues no row fetch
\* and no bulk insert, and moves on to the next table.
C9_EmptyTableSkipped ==
  \A k \in 1..Len(log) :
    /\ log[k].op \in {"findMany", "createMany"} => src[log[k].t] # {}
    /\ (log[k].op = "count" /\ log[k].res = "ok" /\ src[log[k].t] = {})
         => \E p \in Pos(orderedModelNames, log[k].t) : idx > p

\* C9 witness: a completed run that counted an empty self-referential table
\* and then copied the rows of a later table.
C9_Witness ==
  /\ Completed
  /\ \E k \in 1..Len(log) : \E j \in (k + 1)..Len(log) :
       /\ log[k].op = "count"
       /\ src[log[k].t] = {}
       /\ Len(getSelfRelationFkFields(ModelByName(models, log[k].t))) = 1
       /\ log[j].op = "createMany"
       /\ log[j].res = "ok"

ProbedBefore(k) ==
  \E j \in 1..(k - 1) : log[j].op = "queryRaw" /\ log[j].res = "ok"

\* C10: no source row is counted or fetched and no bulk insert is issued
\* before the liveness probe has succeeded; with DATABASE_URL missing or the
\* probe failing the run ends in failure and has moved no row.
C10_ProbeBeforeData ==
  /\ \A k \in 1..Len(log) : DataCall(log[k]) => ProbedBefore(k)
  /\ (~databaseUrl /\ pc # "start")
       => pc = "exit" /\ exitCode = 1 /\ log = <<>> /\ dst = dst0
  /\ (\E k \in 1..Len(log) : log[k].op = "queryRaw" /\ log[k].res # "ok")
       => /\ pc \in {"finally", "settled", "exit"}
          /\ pc = "exit" => exitCode = 1
          /\ \A k \in 1..Len(log) : ~DataCall(log[k])
          /\ dst = dst0

\* C10 witness: a run over a source that holds rows ended in failure on the
\* probe.
C10_Witness ==
  /\ pc = "exit"
  /\ err = "probe"
  /\ exitCode = 1
  /\ \E t \in Tables : src[t] # {} /\ hasDelegates(t)


\* A table of the catalog with no accessor on one of the two clients.
NoAccessor(t) == t \notin srcHas \/ t \notin Range(Names(dmmf))

Failed(c) == c.res # "ok"

\* C11: a table of the order with no accessor on one side gets no store call
\* and does not make the run fail (a run fails only on the missing
\* DATABASE_URL or on a store call that failed), and the loop goes on: every
\* table with accessors that the loop has passed was counted, and a run that
\* ends without error has walked the whole order.
C11_MissingAccessorSkipped ==
  /\ \A k \in 1..Len(log) : log[k].t # 0 => ~NoAccessor(log[k].t)
  /\ err # "none" => (err = "config" \/ \E k \in 1..Len(log) : Failed(log[k]))
  /\ \A p \in 1..Len(orderedModelNames) :
       (p < idx /\ ~NoAccessor(orderedModelNames[p]))
         => \E k \in 1..Len(log) :
              log[k].op = "count" /\ log[k].t = orderedModelNames[p]
  /\ (pc \in {"finally", "settled", "exit"} /\ err = "none")
       => idx > Len(orderedModelNames)

\* C11 witness: a completed run whose order holds a table without source
\* accessor ahead of a table whose rows were then written.
C11_Witness ==
  /\ Completed
  /\ \E p \in 1..Len(orderedModelNames) :
       \E q \in (p + 1)..Len(orderedModelNames) :
         /\ NoAccessor(orderedModelNames[p])
         /\ \E k \in 1..Len(log) :
              /\ log[k].op = "createMany"
              /\ log[k].res = "ok"
              /\ log[k].t = orderedModelNames[q]


WriteFailedAt(k) == log[k].op = "createMany" /\ Failed(log[k])

\* The place of table t in the resolved order.
OrderPos(t) ==
  CHOOSE p \in 1..Len(orderedModelNames) : orderedModelNames[p] = t

Ending == pc \in {"finally", "settled", "exit"}

\* C12: once a bulk insert has failed, the run issues no further store call
\* but the two releases, so none for a table later in the order, and the
\* failure is the run's failure: the run is ending with the write error and
\* exits with status 1.
C12_WriteFailureAborts ==
  \A k \in 1..Len(log) :
    WriteFailedAt(k)
      => /\ \A j \in (k + 1)..Len(log) : log[j].op = "disconnect"
         /\ \A j \in 1..Len(log) :
              log[j].t # 0 => OrderPos(log[j].t) <= OrderPos(log[k].t)
         /\ err = "write"
         /\ Ending
         /\ pc = "exit" => exitCode = 1

\* C12 witness: the run has ended on a failed bulk insert into the first
\* table of the order while the second table has accessors and source rows.
C12_Witness ==
  /\ pc = "exit"
  /\ Len(orderedModelNames) = 2
  /\ WriteFailedAt(Len(log) - 2)
  /\ log[Len(log) - 2].t = orderedModelNames[1]
  /\ ~NoAccessor(orderedModelNames[2])
  /\ src[orderedModelNames[2]] # {}

\* C13 as stated: after a failed bulk insert the orchestrator goes on to the
\* subsequent tables, so that at the end every table with accessors has been
\* processed, and the process exits non-zero.
C13_ContinuesAfterFailedInsert ==
  (pc = "exit" /\ \E k \in 1..Len(log) : WriteFailedAt(k))
    => /\ exitCode # 0
       /\ \A p \in 1..Len(orderedModelNames) :
            ~NoAccessor(orderedModelNames[p])
              => \E k \in 1..Len(log) :
                   log[k].op = "count" /\ log[k].t = orderedModelNames[p]

\* C13 amended: a failed bulk insert is a hard stop for the whole run: the
\* table loop never moves past the table whose insert failed, the destination
\* tables later in the order are as they were when the run began, and the
\* process exits non-zero.
C13_FailedInsertStopsRun ==
  \A k \in 1..Len(log) :
    WriteFailedAt(k)
      => /\ idx = OrderPos(log[k].t)
         /\ \A p \in (idx + 1)..Len(orderedModelNames) :
              dst[orderedModelNames[p]] = dst0[orderedModelNames[p]]
         /\ pc = "exit" => exitCode # 0

\* C13 witness: the run ended on a failed bulk insert into the first table,
\* after an earlier chunk of that table had been written; the second table
\* has accessors and rows, none of which was copied.
C13_Witness ==
  /\ pc = "exit"
  /\ Len(orderedModelNames) = 2
  /\ idx = 1
  /\ \E k \in 1..Len(log) : WriteFailedAt(k)
  /\ dst[orderedModelNames[1]] # dst0[orderedModelNames[1]]
  /\ ~NoAccessor(orderedModelNames[2])
  /\ src[orderedModelNames[2]] # {}
  /\ dst[orderedModelNames[2]] = {}


\* The keys of table t that the bulk inserts of this run wrote with success.
WrittenIds(t) ==
  UNION {Range(log[k].ids) :
           k \in {j \in 1..Len(log) : /\ log[j].op = "createMany"
                                       /\ log[j].res = "ok"
                                       /\ log[j].t = t}}

\* C14: in a run that has failed, every destination table holds exactly the
\* rows it held when the run began and the source rows of the chunks written
\* before the failure (those whose key was not there): nothing was rolled
\* back, deleted or changed.
C14_FailureKeepsWrites ==
  (err # "none")
    => \A t \in Tables :
         dst[t] = dst0[t] \cup {r \in src[t] :
                                  r[ID] \in WrittenIds(t) \ IdsOf(dst0[t])}

\* C14 witness: the run failed on the second table of the order after it had
\* completed the first table and written a chunk of the second, into a
\* destination that held a row before the run.
C14_Witness ==
  /\ pc = "exit"
  /\ err \in {"fetch", "write"}
  /\ idx = 2
  /\ WrittenIds(orderedModelNames[1]) # {}
  /\ WrittenIds(orderedModelNames[2]) # {}
  /\ Cardinality(WrittenIds(orderedModelNames[2]))
       < Cardinality(src[orderedModelNames[2]])
  /\ \E t \in Tables : dst0[t] # {}

CallsOf(op, side) ==
  {k \in 1..Len(log) : log[k].op = op /\ log[k].side = side}

\* C15: each connection is opened at most once per run; a run that created
\* the clients ends, on every path, with both released (one release each),
\* and no store call follows a release.
C15_ConnectionsReleased ==
  /\ \A s \in {"src", "dst"} : Cardinality(CallsOf("connect", s)) <= 1
  /\ pc = "exit"
       => \/ err = "config" /\ srcConn = "none" /\ dstConn = "none"
          \/ /\ srcConn = "released"
             /\ dstConn = "released"
             /\ \A s \in {"src", "dst"} :
                  Cardinality(CallsOf("disconnect", s)) = 1
  /\ \A k \in 1..Len(log) :
       log[k].op = "disconnect"
         => \A j \in (k + 1)..Len(log) : log[j].op = "disconnect"

\* C15 witness: a run that ended on a failed bulk insert, after other
\* store calls on both connections, with both connections released.
C15_Witness ==
  /\ pc = "exit"
  /\ err = "write"
  /\ srcConn = "released"
  /\ dstConn = "released"
  /\ Len(log) >= 8

\* A fatal failure: the connection parameter is missing or a store call
\* (connect, probe, count, fetch, bulk insert) failed.
FatalFailure == ~databaseUrl \/ \E k \in 1..Len(log) : Failed(log[k])

\* C16: the exit status is 1 if a fatal failure occurred and 0 otherwise; a
\* run that only skipped tables or only met parent cycles exits with 0.
C16_ExitStatus ==
  pc = "exit"
    => /\ exitCode \in {0, 1}
       /\ exitCode # 0 <=> FatalFailure

\* C16 witness: a run exits with 0 after skipping a table without source
\* accessor and writing a self-referential table whose rows form a cycle.
C16_Witness ==
  /\ pc = "exit"
  /\ exitCode = 0
  /\ hasCycle
  /\ \E t \in Tables : NoAccessor(t)
  /\ \E t \in Tables : WrittenIds(t) # {}


\* ------------------------------------------ claims on the paginated loop
\* Call k of the log is a fetch of table t that returned its page.
IsPage(k, t) ==
  log[k].op = "findMany" /\ log[k].t = t /\ log[k].res = "ok"

FetchAfter(k, t) ==
  \E j \in (k + 1)..Len(log) : log[j].op = "findMany" /\ log[j].t = t

\* The loop of main() has moved past table t.
Transferred(t) == \E p \in Pos(orderedModelNames, t) : idx > p

\* Table t is the table counted last, so that `total` is its row count.
LastCounted(t) ==
  \E k \in 1..Len(log) :
    /\ log[k].op = "count" /\ log[k].t = t /\ log[k].res = "ok"
    /\ \A j \in (k + 1)..Len(log) : log[j].op # "count"

\* No source row of t was deleted since it was counted.
Static(t) == LastCounted(t) /\ Cardinality(src[t]) = total

\* The rows of t fetched by the pages up to call k.
RECURSIVE FetchedThrough(_, _)
FetchedThrough(t, k) ==
  IF k = 0 THEN 0
  ELSE FetchedThrough(t, k - 1) + (IF IsPage(k, t) THEN Len(log[k].ids) ELSE 0)

\* C17 as stated: no fetch follows a page of fewer than batchSize rows, and a
\* fetch follows every page of exactly batchSize rows (in a transfer that ran
\* to its end).
C17_StopsExactlyOnShortPage ==
  \A t \in Tables : \A k \in 1..Len(log) :
    IsPage(k, t)
      => /\ Len(log[k].ids) < batchSize => ~FetchAfter(k, t)
         /\ (Len(log[k].ids) = batchSize /\ Transferred(t))
              => FetchAfter(k, t)

\* C17 amended: the paginated transfer stops exactly when the rows
\* transferred reach the counted total or a fetch returns zero rows: no fetch
\* follows such a page, and a fetch follows every other page of a transfer
\* that ran to its end. Over a source that nobody changes, no fetch follows a
\* page of fewer than batchSize rows.
C17_StopsAtCountedTotal ==
  \A t \in Tables : \A k \in 1..Len(log) :
    (IsPage(k, t) /\ LastCounted(t))
      => /\ (Len(log[k].ids) = 0 \/ FetchedThrough(t, k) >= total)
              => ~FetchAfter(k, t)
         /\ (/\ Len(log[k].ids) > 0
             /\ FetchedThrough(t, k) < total
             /\ Transferred(t)) => FetchAfter(k, t)
         /\ (Static(t) /\ Len(log[k].ids) < batchSize) => ~FetchAfter(k, t)

\* C17 witness: the transfer of an unchanged table of four rows ran to its
\* end in two pages of two rows, the last one a full page.
C17_Witness ==
  /\ pc = "exit"
  /\ Transferred(1)
  /\ Static(1)
  /\ total = 4
  /\ batchSize = 2
  /\ IsPage(Len(log) - 3, 1)
  /\ Len(log[Len(log) - 3].ids) = batchSize


\* The id lists of the calls `op` on table t that returned with success, in
\* call order.
IdsOfCalls(op, t) ==
  LET sel == SelectSeq(log, LAMBDA c : c.op = op /\ c.t = t /\ c.res = "ok")
  IN [k \in 1..Len(sel) |-> sel[k].ids]

\* Every call `op` on table t, failed ones included.
AllCalls(op, t) == {k \in 1..Len(log) : log[k].op = op /\ log[k].t = t}

CeilDiv(n, b) == (n + b - 1) \div b

\* Page sizes b, ..., b and a last page of n - (ceil(n/b) - 1) * b rows.
ExpectedSizes(n, b) ==
  [k \in 1..CeilDiv(n, b) |->
     IF k < CeilDiv(n, b) THEN b ELSE n - (CeilDiv(n, b) - 1) * b]

SizesOf(ss) == [k \in 1..Len(ss) |-> Len(ss[k])]

RECURSIVE Concat(_)
Concat(ss) == IF ss = <<>> THEN <<>> ELSE Head(ss) \o Concat(Tail(ss))

\* C18: the paginated transfer of an unchanged table of N > 0 rows with batch
\* size b, run to its end, issued exactly ceil(N/b) fetches and ceil(N/b) bulk
\* inserts, of b, ..., b and N - (ceil(N/b) - 1) * b rows.
C18_PageCount ==
  \A t \in Tables :
    (Transferred(t) /\ Static(t) /\ total > 0)
      => /\ Cardinality(AllCalls("findMany", t)) = CeilDiv(total, batchSize)
         /\ Cardinality(AllCalls("createMany", t)) = CeilDiv(total, batchSize)
         /\ SizesOf(IdsOfCalls("findMany", t))
              = ExpectedSizes(total, batchSize)
         /\ SizesOf(IdsOfCalls("createMany", t))
              = ExpectedSizes(total, batchSize)

\* C18 witness: an unchanged table of five rows was transferred to its end
\* with batch size two: pages of 2, 2 and 1 rows.
C18_Witness ==
  /\ pc = "exit"
  /\ Transferred(1)
  /\ Static(1)
  /\ total = 5
  /\ batchSize = 2
  /\ SizesOf(IdsOfCalls("findMany", 1)) = <<2, 2, 1>>

\* s is a prefix of u.
IsPrefix(s, u) == Len(s) <= Len(u) /\ s = SubSeq(u, 1, Len(s))

\* C19: over an unchanged table the pages, concatenated in fetch order, run
\* through the source rows in ascending key order without gap or repeat, and
\* so do the bulk inserts; at the end of the transfer they are all the rows.
C19_PagesAscendingOnce ==
  \A t \in Tables :
    Static(t)
      => /\ IsPrefix(Concat(IdsOfCalls("findMany", t)),
                     AscSeq(IdsOf(src[t])))
         /\ IsPrefix(Concat(IdsOfCalls("createMany", t)),
                     Concat(IdsOfCalls("findMany", t)))
         /\ Transferred(t)
              => /\ Concat(IdsOfCalls("findMany", t)) = AscSeq(IdsOf(src[t]))
                 /\ Concat(IdsOfCalls("createMany", t))
                      = AscSeq(IdsOf(src[t]))

\* C19 witness: an unchanged table of five rows was transferred to its end
\* in three pages that met at two page boundaries.
C19_Witness ==
  /\ pc = "exit"
  /\ Transferred(1)
  /\ Static(1)
  /\ Len(IdsOfCalls("createMany", 1)) = 3
  /\ Concat(IdsOfCalls("createMany", 1)) = <<1, 2, 3, 4, 5>>


\* ---------------------------------------------- claims on the row resolver
\* C20: topoSortSelfRows returns hasCycle = true exactly when the parent
\* pointers, restricted to the row set, contain a cycle; a row that is its own
\* parent is a cycle, a pointer out of the set is not.
C20_HasCycleIffCycle ==
  RowsResolved => (hasCycle <=> ~RowsAcyclic(rows, ParentCol))

\* C20 witness: two rows that name each other as parent were resolved, with
\* hasCycle = true.
C20_Witness ==
  /\ pc = "rowsSorted"
  /\ Len(rows) = 2
  /\ rows[1][ParentCol] = rows[2][ID]
  /\ rows[2][ParentCol] = rows[1][ID]
  /\ Len(ordered) = 2
  /\ hasCycle


\* The rows Kahn's algorithm cannot consume: a row on a parent cycle, or with
\* such a row among its ancestors in the set.
StuckRow(rs, r, col) ==
  \E x \in Ancestors(rs, col, {r[ID]}, Len(rs)) :
    x \in Ancestors(rs, col, {ParentIn(rs, rowById(rs, x), col)} \ {NULL},
                    Len(rs))

LastOf(s, n) == SubSeq(s, Len(s) - n + 1, Len(s))

\* C21: the list topoSortSelfRows returns holds every input row exactly once,
\* unmodified, cycle or not; the rows that cannot be consumed (on a parent
\* cycle or below one) come after all the others, in their input order.
C21_RowsPermutation ==
  RowsResolved
    => /\ Len(ordered) = Len(rows)
       /\ \A k \in 1..Len(rows) : Cardinality(Pos(ordered, rows[k])) = 1
       /\ LET stuck == SelectSeq(rows, LAMBDA r : StuckRow(rows, r, ParentCol))
          IN LastOf(ordered, Len(stuck)) = stuck

\* C21 witness: three rows, the first two naming each other as parent with
\* the larger id first, the third a root: the root was moved ahead of them.
C21_Witness ==
  /\ pc = "rowsSorted"
  /\ Len(rows) = 3
  /\ rows[1][ParentCol] = rows[2][ID]
  /\ rows[2][ParentCol] = rows[1][ID]
  /\ rows[1][ID] > rows[2][ID]
  /\ ParentIn(rows, rows[3], ParentCol) = NULL
  /\ ordered = <<rows[3], rows[1], rows[2]>>

\* The rows whose parent is null or not in the row set, in input order.
RootRows(rs, col) == SelectSeq(rs, LAMBDA r : ParentIn(rs, r, col) = NULL)

\* C22: the rows whose parent is null or out of the row set are the first
\* rows of the output, in their input order (so none is in the fallback
\* tail), and they do not make hasCycle true: hasCycle is true exactly when
\* the other rows hold a parent cycle.
C22_RootsFirst ==
  RowsResolved
    => /\ SubSeq(ordered, 1, Len(RootRows(rows, ParentCol)))
            = RootRows(rows, ParentCol)
       /\ hasCycle
            <=> ~RowsAcyclic(SelectSeq(rows, LAMBDA r :
                               ParentIn(rows, r, ParentCol) # NULL), ParentCol)

\* C22 witness: a child given ahead of its parent, whose own parent value
\* names a row that is not in the set; the parent was emitted first.
C22_Witness ==
  /\ pc = "rowsSorted"
  /\ Len(rows) = 2
  /\ rows[1][ParentCol] = rows[2][ID]
  /\ rows[2][ParentCol] # NULL
  /\ rows[2][ParentCol] \notin Range(RowIds(rows))
  /\ ordered = <<rows[2], rows[1]>>
  /\ ~hasCycle


\* ------------------------------------------- claims on the transfer modes
SelfFkCount(t) == Len(getSelfRelationFkFields(ModelByName(dmmf, t)))

IsAscending(s) == \A k \in 1..(Len(s) - 1) : s[k] < s[k + 1]

\* C23: a table with source rows is in pre-ordered mode (one fetch of all its
\* rows, written in the order of topoSortSelfRows) exactly when it has one
\* self-referential FK column; with none or with more than one it is in
\* paginated mode: pages of at most batchSize rows in ascending key order,
\* each written as fetched.
C23_ModeSelection ==
  /\ pc \in {"findAll", "chunk"}
       => SelfFkCount(CurModel) = 1 /\ src[CurModel] # {}
  /\ pc \in {"page", "pageWrite"}
       => SelfFkCount(CurModel) # 1 /\ src[CurModel] # {}
  /\ pc = "chunk"
       => /\ Range(RowIds(rows)) = IdsOf(src[CurModel])
          /\ ordered = topoSortSelfRows(
                          rows, getSelfRelationFkFields(
                                  ModelByName(dmmf, CurModel))[1]).ordered
  /\ \A k \in 1..Len(log) :
       (log[k].op = "findMany" /\ log[k].res = "ok")
         => IF SelfFkCount(log[k].t) = 1
              THEN Range(log[k].ids) = IdsOf(src[log[k].t])
              ELSE /\ Len(log[k].ids) <= batchSize
                   /\ IsAscending(log[k].ids)
                   /\ k < Len(log)
                        => /\ log[k + 1].op = "createMany"
                           /\ log[k + 1].ids = log[k].ids

\* C23 witness: a table with two self-referential FK columns is in paginated
\* mode, about to write a page in which a child precedes its parent.
C23_Witness ==
  /\ pc = "pageWrite"
  /\ SelfFkCount(CurModel) = 2
  /\ Len(rows) = 2
  /\ rows[1][CurModel] = rows[2][ID]


\* ------------------------------------- claims on the table order resolver
\* The tables Kahn's algorithm can order: the least set that holds every
\* table whose dependencies it holds (k rounds).
RECURSIVE Orderable(_, _, _)
Orderable(deps, S, k) ==
  IF k = 0 THEN S
  ELSE Orderable(deps, S \cup {a \in DOMAIN deps : deps[a] \subseteq S}, k - 1)

Unordered(ms) ==
  LET deps == getDependencyGraph(ms)
  IN DOMAIN deps \ Orderable(deps, {}, Len(ms))

\* C24: when Kahn's algorithm leaves tables unordered, the order is the tables
\* it ordered (each after its dependencies), followed by all the tables it
\* left, in catalog order; every catalog yields an order.
C24_CycleFallback ==
  (OrderResolved /\ Unordered(models) # {})
    => LET rest == SelectSeq(Names(models),
                             LAMBDA n : n \in Unordered(models))
           head == SubSeq(orderedModelNames, 1, Len(models) - Len(rest))
       IN /\ LastOf(orderedModelNames, Len(rest)) = rest
          /\ Range(head) = Range(Names(models)) \ Unordered(models)
          /\ \A a \in Range(head) : \A b \in getDependencyGraph(models)[a] :
               StrictlyBefore(head, b, a)

\* C24 witness: the last table of a catalog of three has no dependency and
\* the first two depend on each other: the order is the third, then the
\* first two in catalog order.
C24_Witness ==
  /\ pc = "loop"
  /\ Len(models) = 3
  /\ Unordered(models) = {models[1].name, models[2].name}
  /\ orderedModelNames = <<models[3].name, models[1].name, models[2].name>>


\* The place in the order at which table a becomes ready: the place of the
\* last of its dependencies, 0 when it has none.
ReadyAt(order, deps, a) ==
  LET places == {0} \cup {IndexOf(order, b) : b \in deps[a]}
  IN CHOOSE p \in places : \A q \in places : q <= p

\* C25: the tables without dependencies open the order in catalog order; of
\* two orderable tables the one that becomes ready earlier comes first, and
\* two that become ready at the same time come in catalog order; the catalog
\* <<Post, User, Role>> with Post depending on User resolves to
\* <<User, Role, Post>>.
C25_StableTieBreak ==
  OrderResolved
    => LET deps  == getDependencyGraph(models)
           names == Names(models)
           can   == Range(names) \ Unordered(models)
           roots == SelectSeq(names, LAMBDA n : deps[n] = {})
       IN /\ SubSeq(orderedModelNames, 1, Len(roots)) = roots
          /\ \A a \in can : \A b \in can \ {a} :
               (\/ ReadyAt(orderedModelNames, deps, a)
                     < ReadyAt(orderedModelNames, deps, b)
                \/ /\ ReadyAt(orderedModelNames, deps, a)
                        = ReadyAt(orderedModelNames, deps, b)
                   /\ IndexOf(names, a) < IndexOf(names, b))
                 => StrictlyBefore(orderedModelNames, a, b)
          /\ (Len(models) = 3 /\ deps = (1 :> {2} @@ 2 :> {} @@ 3 :> {}))
               => orderedModelNames = <<2, 3, 1>>

\* C25 witness: the catalog <<Post, User, Role>>, Post holding a FK to User
\* and User the inverse side, has been resolved to <<User, Role, Post>>.
C25_Witness ==
  /\ pc = "loop"
  /\ Len(models) = 3
  /\ getDependencyGraph(models) = (1 :> {2} @@ 2 :> {} @@ 3 :> {})
  /\ \E k \in 1..Len(models[2].fields) :
       models[2].fields[k] = Field("object", 1, <<>>)
  /\ orderedModelNames = <<2, 3, 1>>


\* ------------------------------------------- claims on the dependency graph
\* Table a has a relation field to b that stores its own FK columns.
HasFkTo(ms, a, b) ==
  \E k \in 1..Len(ModelByName(ms, a).fields) :
    LET f == ModelByName(ms, a).fields[k]
    IN f.kind = "object" /\ f.type = b /\ Len(f.relationFromFields) > 0

\* Every relation field of table a points to a itself.
OnlySelfReference(ms, a) ==
  \A k \in 1..Len(ModelByName(ms, a).fields) :
    ModelByName(ms, a).fields[k].kind = "object"
      => ModelByName(ms, a).fields[k].type = a

\* C26: the dependency graph has one entry per table of the catalog; b is a
\* dependency of a exactly when a has a relation field to b with a non-empty
\* FK column list, b is a table of the catalog and b is not a. So no table
\* depends on itself or on a table outside the catalog, and a table whose
\* relations all point to itself has no dependency.
C26_GraphEdges ==
  OrderResolved
    => LET deps  == getDependencyGraph(models)
           names == Range(Names(models))
       IN /\ DOMAIN deps = names
          /\ \A a \in names :
               /\ \A b \in names \cup {NULL} :
                    b \in deps[a] <=> (HasFkTo(models, a, b) /\ b \in names /\ b # a)
               /\ deps[a] \subseteq names \ {a}
               /\ OnlySelfReference(models, a) => deps[a] = {}

\* C26 witness: table 1 stores a FK to itself, table 2 has the inverse side
\* of a relation to table 1 and stores a FK to a table outside the catalog:
\* no table has a dependency.
C26_Witness ==
  /\ pc = "loop"
  /\ Len(models) = 2
  /\ HasFkTo(models, 1, 1)
  /\ HasFkTo(models, 2, NULL)
  /\ \E k \in 1..Len(models[2].fields) :
       models[2].fields[k] = Field("object", 1, <<>>)
  /\ getDependencyGraph(models) = (1 :> {} @@ 2 :> {})


\* ------------------------------------------------ claims on sequentiality
\* The store calls of the run so far came one table after the other in the
\* resolved order, and within a table every fetched page and every chunk was
\* inserted to completion before the next fetch or the next chunk.
SequentialLog ==
  /\ \A j \in 1..Len(log) : \A k \in (j + 1)..Len(log) :
       (DataCall(log[j]) /\ DataCall(log[k]))
         => OrderPos(log[j].t) <= OrderPos(log[k].t)
  /\ \A k \in 1..Len(log) :
       (log[k].op = "findMany" /\ log[k].res = "ok" /\ log[k].ids # <<>>
          /\ SelfFkCount(log[k].t) # 1)
         => IF k = Len(log) THEN pc = "pageWrite" /\ RowIds(rows) = log[k].ids
            ELSE /\ log[k + 1].op = "createMany"
                 /\ log[k + 1].t = log[k].t
                 /\ log[k + 1].ids = log[k].ids
  /\ \A k \in 1..Len(log) :
       log[k].op = "createMany"
         => /\ k > 1
            /\ log[k - 1].t = log[k].t
            /\ log[k - 1].res = "ok"
            /\ IF SelfFkCount(log[k].t) = 1
                 THEN log[k - 1].op \in {"findMany", "createMany"}
                 ELSE log[k - 1].op = "findMany"
  /\ \A k \in 1..(Len(log) - 1) :
       Failed(log[k]) => log[k + 1].op = "disconnect"

\* C27 as stated: every step of the run issues at most one store call, and
\* the calls are sequential across tables and within a table. The step that
\* ends the run issues the two releases together.
C27_OneCallAtAnyTime ==
  [][Len(log') <= Len(log) + 1]_vars /\ []SequentialLog

\* C27, amended: but for the two releases, which the run issues together when
\* it ends, every step issues at most one store call; the calls go table by
\* table in the resolved order, and each fetched page or chunk is inserted to
\* completion before the next page is fetched or the next chunk written.
C27_SequentialButReleases ==
  [][IF pc = "finally"
       THEN SubSeq(log', Len(log) + 1, Len(log')) =
              <<Call("disconnect", "src", 0, <<>>, "ok"),
                Call("disconnect", "dst", 0, <<>>, "ok")>>
       ELSE Len(log') <= Len(log) + 1
    ]_vars /\ []SequentialLog

\* C27 witness: a run has ended after two pages of a paginated table and the
\* transfer of another table, and has released both connections.
C27_Witness ==
  /\ pc = "exit"
  /\ \E t \in Tables :
       /\ SelfFkCount(t) # 1
       /\ Cardinality({k \in 1..Len(log) :
                         log[k].op = "createMany" /\ log[k].t = t}) = 2
       /\ \E u \in Tables \ {t} :
            \E k \in 1..Len(log) : log[k].op = "createMany" /\ log[k].t = u
  /\ LastOf(log, 2) = <<Call("disconnect", "src", 0, <<>>, "ok"),
                        Call("disconnect", "dst", 0, <<>>, "ok")>>


\* --------------------------------------------- claims on pre-ordered chunks
\* The row lists of the bulk inserts issued for table t, in write order.
ChunksOf(t) ==
  LET sel == SelectSeq(log, LAMBDA c : c.op = "createMany" /\ c.t = t)
  IN [k \in 1..Len(sel) |-> sel[k].ids]

\* Table t has been fetched whole for the pre-ordered transfer, and `ordered`
\* is its sorted row list.
PreOrdered(t) ==
  /\ SelfFkCount(t) = 1
  /\ pc \in {"chunk", "loop", "finally", "settled", "exit"}
  /\ LastCounted(t)
  /\ \E k \in 1..Len(log) :
       log[k].op = "findMany" /\ log[k].t = t /\ log[k].res = "ok"

\* The chunks written so far are the first chunks of sizes b, ..., b and a
\* last one of 1..b rows of the sorted list, and all of them, ceil(L/b),
\* once the table is done without failure.
ChunksSliceOrdered(t) ==
  LET chunks == ChunksOf(t)
      L == Len(ordered)
  IN /\ IsPrefix(Concat(chunks), RowIds(ordered))
     /\ IsPrefix(SizesOf(chunks), ExpectedSizes(L, batchSize))
     /\ \A k \in 1..Len(chunks) :
          /\ Len(chunks[k]) \in 1..batchSize
          /\ k < CeilDiv(L, batchSize) => Len(chunks[k]) = batchSize
     /\ (Transferred(t) /\ ~FatalFailure)
          => /\ Len(chunks) = CeilDiv(L, batchSize)
             /\ Concat(chunks) = RowIds(ordered)

\* The parent of the row `id` of table t, if a source row.
ParentOfId(t, id) == ParentIn(ordered, rowById(ordered, id), t)

\* C28 as stated: the chunks slice the sorted list, and no chunk holds the
\* parent of a row of an earlier chunk.
C28_ParentNeverLater ==
  \A t \in Tables :
    PreOrdered(t)
      => /\ ChunksSliceOrdered(t)
         /\ \A k \in 1..Len(ChunksOf(t)) : \A j \in (k + 1)..Len(ChunksOf(t)) :
              \A c \in Range(ChunksOf(t)[k]) :
                ParentOfId(t, c) \notin Range(ChunksOf(t)[j])

\* C28, amended: the sorted list of L rows is written as ceil(L/b) bulk
\* inserts that, concatenated in write order, are the sorted list, all of b
\* rows but the last of 1..b rows; the parent of a row that is neither on a
\* parent cycle nor below one is in the row's chunk or in an earlier one,
\* never in a later one.
C28_ChunksOfSortedList ==
  \A t \in Tables :
    PreOrdered(t)
      => /\ ChunksSliceOrdered(t)
         /\ \A k \in 1..Len(ChunksOf(t)) :
              \A c \in Range(ChunksOf(t)[k]) :
                (~StuckRow(ordered, rowById(ordered, c), t)
                   /\ ParentOfId(t, c) # NULL)
                  => \E j \in 1..k : ParentOfId(t, c) \in Range(ChunksOf(t)[j])

\* C28 witness: three rows, the first the parent of the last, were written
\* with batch size 2 as a chunk of two rows and a chunk of one.
C28_Witness ==
  /\ Completed
  /\ PreOrdered(1)
  /\ batchSize = 2
  /\ Len(ordered) = 3
  /\ SizesOf(ChunksOf(1)) = <<2, 1>>
  /\ ParentOfId(1, ChunksOf(1)[2][1]) = ChunksOf(1)[1][1]


\* ------------------------------------------------------ claims on termination
\* The store calls a run can issue at most: two connects, the probe and two
\* releases, and for each table its count, then for N > 0 rows either the
\* fetch of all rows and ceil(N/b) bulk inserts, or ceil(N/b) pages, each
\* fetched and inserted.
CallBound ==
  5 + SumSeq([t \in 1..Len(src) |->
                LET N == Cardinality(src[t])
                IN IF N = 0 THEN 1
                   ELSE IF SelfFkCount(t) = 1 THEN 2 + CeilDiv(N, batchSize)
                   ELSE 1 + 2 * CeilDiv(N, batchSize)])

\* C29: a run over a static source with a positive integer batch size ends
\* (with or without failure), and issues no more store calls than CallBound:
\* neither the paginated loop nor the chunk loop goes on for ever.
C29_Terminates ==
  /\ <>(pc = "exit")
  /\ [](Len(log) <= CallBound)

\* C29 witness: a run has ended after as many store calls as CallBound
\* allows, with a table of two pages and a table of two chunks.
C29_Witness ==
  /\ pc = "exit"
  /\ Len(log) = CallBound
  /\ \E t \in Tables :
       SelfFkCount(t) = 1 /\ Cardinality(AllCalls("createMany", t)) = 2
  /\ \E t \in Tables :
       SelfFkCount(t) # 1 /\ Cardinality(AllCalls("findMany", t)) = 2


\* ------------------------------------------ claims on ordering under cycles
\* lines 51-80: the list `sorted` of topoSortModels when its loop ends.
KahnSorted(ms) ==
  LET deps == getDependencyGraph(ms)
      keys == Distinct(Names(ms))
      inDegree == [m \in Range(keys) |-> Cardinality(deps[m])]
  IN kahnModels(initialModelQueue(keys, inDegree), <<>>, inDegree,
                modelChildren(ms, deps))

\* The tables the fallback appends.
FallbackTail(ms) == Range(Names(ms)) \ Range(KahnSorted(ms))

\* The tables on a dependency cycle.
OnCycle(deps) == {a \in DOMAIN deps : a \in DependsOnTransitively(deps, a)}

\* The tables on a dependency cycle or depending, directly or not, on one.
CycleBound(deps) ==
  OnCycle(deps) \cup
    {a \in DOMAIN deps : DependsOnTransitively(deps, a) \cap OnCycle(deps) # {}}

\* C30: when the dependency graph has a cycle, the fallback tail holds
\* exactly the tables on a cycle and the tables that depend, directly or
\* not, on such a table; it is the end of the order, and every other table
\* comes strictly after each of its dependencies.
C30_PartialOrderUnderCycles ==
  (OrderResolved /\ ~AcyclicGraph(getDependencyGraph(models)))
    => LET deps == getDependencyGraph(models)
           tail == FallbackTail(models)
       IN /\ tail = CycleBound(deps)
          /\ Range(LastOf(orderedModelNames, Cardinality(tail))) = tail
          /\ Len(orderedModelNames) = Len(models)
          /\ \A a \in DOMAIN deps \ CycleBound(deps) : \A b \in deps[a] :
               StrictlyBefore(orderedModelNames, b, a)

\* C30 witness: of four tables the first two depend on each other, the
\* third depends on the fourth: the order is the fourth, the third, then
\* the two tables of the cycle.
C30_Witness ==
  /\ pc = "loop"
  /\ getDependencyGraph(models) = (1 :> {2} @@ 2 :> {1} @@ 3 :> {4} @@ 4 :> {})
  /\ orderedModelNames = <<4, 3, 1, 2>>


=============================================================================
